---------------------------- MODULE Spec2Model ----------------------------
(***************************************************************************)
(* A model of the multicell network renderer (backend/multicell_circles.py *)
(* and backend/multicell_gui.py).                                          *)
(*                                                                         *)
(* Coordinates of the layout are integers in units of 0.001 of the plot    *)
(* plane, so the working rectangle [0.15, 0.85] is 150..850, LIVING_RADIUS *)
(* is 100 and FUNCTION_RADIUS is 50.  Real quantities that are not whole   *)
(* numbers of that unit (the relaxed min_dist) are exact rationals         *)
(* <<numerator, denominator>>.                                             *)
(***************************************************************************)
EXTENDS Integers, Sequences, FiniteSets, TLC

VARIABLES
    \* random_cell_positions
    n,              \* parameter n
    max_attempts,   \* parameter max_attempts
    relax_factor,   \* parameter relax_factor, a rational <<num, den>>
    centres,        \* local centres
    attempts,       \* local attempts
    min_dist,       \* parameter and local min_dist, a rational <<num, den>>
    relaxations,    \* number of "Relaxing cell spacing" messages written
    \* draw_smart_line
    line,           \* parameters <<p1, p2>>
    circles,        \* zip(circle_centers, circle_radii): <<center, radius>>
    segments,       \* local segments: <<a, b, outside>>
    ci,             \* the circles passed so far (position of the for loop)
    inters,         \* the calls of segment_circle_intersection made by the
                    \* last pass: <<a, b, center, radius, result>>
    \* ring_positions_inside_cell
    ring_args,      \* parameters <<center, cell_radius, n_items, item_radius>>
    ring_radius,    \* local ring_radius, in units of 0.00001
    angles,         \* local angles, in units of 5 degrees
    ring_points,    \* the list returned
    \* the layout and the drawing of the connection lines
    cell_centres,
    living_centres,
    function_centres,
    spoke,          \* the internal connections started so far
    \* the interactive variant (MultiCellGUI)
    n_cells,
    cell_spacing,
    avoid_overlap,
    dragging_idx,
    last_xy,
    canvas,         \* what the last redraw drew
    func_color_map,
    living_outline_color,
    cell_border_color,
    font_color_living,
    font_color_function,
    box_col_liv,    \* the text shown in the "Living outline" box
    submitted,      \* the box and the text of the submission handled last
    submits,        \* the submissions handled so far
    \* the connection loop of the batch renderer
    N_CELLS,
    total_connections,
    counter,
    loop_i,         \* the living point the loop is at
    loop_j,         \* the cell whose function points are being connected
    loop_k,         \* the next function point of that cell
    drawn,          \* the connections drawn: <<living, cell, function>>
    filled,         \* the filled part of the progress bar shown last
    newlines,       \* the newlines written to stdout by progress_bar
    pc              \* position of the running routine

placeVars == <<n, max_attempts, relax_factor, centres, attempts, min_dist,
               relaxations>>

splitVars == <<line, circles, segments, ci, inters>>

ringVars == <<ring_args, ring_radius, angles, ring_points>>

layoutVars == <<cell_centres, living_centres, function_centres>>

guiVars == <<n_cells, cell_spacing, avoid_overlap, dragging_idx, last_xy, canvas>>

colourVars == <<func_color_map, living_outline_color, cell_border_color,
                font_color_living, font_color_function, box_col_liv,
                submitted, submits>>

batchVars == <<N_CELLS, total_connections, counter, loop_i, loop_j, loop_k,
               drawn, filled, newlines>>

vars == <<placeVars, splitVars, ringVars, layoutVars, spoke, guiVars, colourVars,
          batchVars, pc>>

-----------------------------------------------------------------------------
(* Bounds of the model *)

MaxCells == 3

MaxAttempts == 2

MaxRelax == 5

MaxCircles == 2

-----------------------------------------------------------------------------
(* Arithmetic helpers *)

Abs(x) == IF x < 0 THEN -x ELSE x

RECURSIVE GCD(_, _)
GCD(a, b) == IF b = 0 THEN a ELSE GCD(b, a % b)

\* A rational in lowest terms with a positive denominator.
Rat(num, den) ==
    LET g == GCD(Abs(num), den)
    IN  IF num = 0 THEN <<0, 1>> ELSE <<num \div g, den \div g>>

RatMul(a, b) == Rat(a[1] * b[1], a[2] * b[2])

\* a/c > e/b for a, e >= 0 and c, b > 0, decided exactly by comparing the
\* integer parts and then the inverted remainders (no product is formed, so
\* no intermediate value leaves the integer range).
RECURSIVE FracGT(_, _, _, _)
FracGT(a, c, e, b) ==
    LET qa == a \div c
        ra == a % c
        qe == e \div b
        re == e % b
    IN  IF qa # qe THEN qa > qe
        ELSE IF ra = 0 THEN FALSE
        ELSE IF re = 0 THEN TRUE
        ELSE FracGT(b, re, c, ra)

\* a < b, for rationals with positive denominators
RatLess(a, b) ==
    IF a[1] < 0 \/ b[1] < 0
    THEN a[1] * b[2] < b[1] * a[2]
    ELSE FracGT(b[1], b[2], a[1], a[2])

Dist2(p, q) == (p[1] - q[1]) * (p[1] - q[1]) + (p[2] - q[2]) * (p[2] - q[2])

-----------------------------------------------------------------------------
(* random_cell_positions *)

\* The values random.uniform(0.15, 0.85) is drawn from: the two ends and the
\* middle of the working interval for x, the two ends for y.
XCoords == {150, 500, 850}

YCoords == {150, 850}

\* p = (random.uniform(0.15, 0.85), random.uniform(0.15, 0.85))
Candidates == XCoords \X YCoords

FartherOrEqual(p, c, md) ==
    IF md[1] <= 0 THEN TRUE
    ELSE ~FracGT(md[1], md[2] * md[2], Dist2(p, c), md[1])

\* np.linalg.norm(p - c) > min_dist, that is |p - c|^2 > min_dist^2 for a
\* min_dist >= 0: with min_dist = num/den, |p - c|^2 / num > num / den^2
Farther(p, c, md) ==
    IF md[1] < 0 THEN TRUE
    ELSE IF md[1] = 0 THEN Dist2(p, c) > 0
    ELSE FracGT(Dist2(p, c), md[1], md[1], md[2] * md[2])

AcceptsLastOnly(p, cs, md) ==
    IF Len(cs) = 0 THEN TRUE ELSE Farther(p, cs[Len(cs)], md)

\* all(np.linalg.norm(np.array(p) - np.array(c)) > min_dist for c in centres)
Accepts(p, cs, md) == \A i \in 1..Len(cs) : Farther(p, cs[i], md)

LoopCondOffByOne(cs, k) == Len(cs) <= k

\* while len(centres) < n
LoopCond(cs, k) == Len(cs) < k

RelaxGrows(md, rf) == RatMul(md, <<rf[2], rf[1]>>)

\* min_dist *= relax_factor
Relax(md, rf) == RatMul(md, rf)

\* The starting min_dist values: the GUI's 0.05 (avoid overlap off), 0.35
\* (in the range of the spacing slider, and the distance of neighbouring
\* candidates) and the default 0.55.
StartDists == {50, 350, 550}

RelaxFactors == {<<9, 10>>, <<1, 2>>}

PlaceIdle ==
    /\ n = 0
    /\ max_attempts = 0
    /\ relax_factor = <<0, 1>>
    /\ min_dist = <<0, 1>>
    /\ centres = <<>>
    /\ attempts = 0
    /\ relaxations = 0

SplitIdle ==
    /\ line = <<>>
    /\ circles = <<>>
    /\ segments = <<>>
    /\ ci = 0
    /\ inters = <<>>

RingIdle ==
    /\ ring_args = <<>>
    /\ ring_radius = 0
    /\ angles = <<>>
    /\ ring_points = <<>>

LayoutIdle ==
    /\ cell_centres = <<>>
    /\ living_centres = <<>>
    /\ function_centres = <<>>
    /\ spoke = 0

GuiIdle ==
    /\ n_cells = 0
    /\ cell_spacing = 0
    /\ avoid_overlap = TRUE
    /\ dragging_idx = 0
    /\ last_xy = <<>>
    /\ canvas = <<>>

ColourIdle ==
    /\ func_color_map = <<>>
    /\ living_outline_color = <<>>
    /\ cell_border_color = <<>>
    /\ font_color_living = <<>>
    /\ font_color_function = <<>>
    /\ box_col_liv = <<>>
    /\ submitted = <<>>
    /\ submits = 0

BatchIdle ==
    /\ N_CELLS = 0
    /\ total_connections = 0
    /\ counter = 0
    /\ loop_i = 0
    /\ loop_j = 0
    /\ loop_k = 0
    /\ drawn = {}
    /\ filled = 0
    /\ newlines = 0

PlaceInit ==
    /\ SplitIdle
    /\ RingIdle
    /\ LayoutIdle
    /\ GuiIdle
    /\ ColourIdle
    /\ BatchIdle
    /\ n \in 1..MaxCells
    /\ max_attempts \in 1..MaxAttempts
    /\ relax_factor \in RelaxFactors
    /\ min_dist \in {<<d, 1>> : d \in StartDists}
    /\ centres = <<>>
    /\ attempts = 0
    /\ relaxations = 0
    /\ pc = "loop"

\* lines 73-77: a candidate is drawn and accepted
Accept(p) ==
    /\ pc = "loop"
    /\ LoopCond(centres, n)
    /\ Accepts(p, centres, min_dist)
    /\ centres' = Append(centres, p)
    /\ attempts' = 0
    /\ UNCHANGED <<n, max_attempts, relax_factor, min_dist, relaxations, pc>>
    /\ UNCHANGED <<splitVars, ringVars, layoutVars, spoke, guiVars, colourVars, batchVars>>

\* lines 73-74, 79-83: a candidate is drawn and rejected
Reject(p) ==
    /\ pc = "loop"
    /\ LoopCond(centres, n)
    /\ ~Accepts(p, centres, min_dist)
    /\ IF attempts + 1 >= max_attempts
       THEN /\ relaxations < MaxRelax
            /\ min_dist' = Relax(min_dist, relax_factor)
            /\ attempts' = 0
            /\ relaxations' = relaxations + 1
       ELSE /\ attempts' = attempts + 1
            /\ UNCHANGED <<min_dist, relaxations>>
    /\ UNCHANGED <<n, max_attempts, relax_factor, centres, pc>>
    /\ UNCHANGED <<splitVars, ringVars, layoutVars, spoke, guiVars, colourVars, batchVars>>

\* line 85: the loop condition fails and the list is returned
Return ==
    /\ pc = "loop"
    /\ ~LoopCond(centres, n)
    /\ pc' = "done"
    /\ UNCHANGED <<placeVars, splitVars, ringVars, layoutVars, spoke, guiVars, colourVars, batchVars>>

AcceptSome == \E p \in Candidates : Accept(p)

RejectSome == \E p \in Candidates : Reject(p)

PlaceNext == AcceptSome \/ RejectSome \/ Return

PlaceSpec == PlaceInit /\ [][PlaceNext]_vars

\* random.uniform samples the rectangle fairly: a region of acceptable
\* candidates that stays available is eventually hit, and the loop keeps
\* running.
FairPlaceSpec ==
    /\ PlaceInit
    /\ [][PlaceNext]_vars
    /\ WF_vars(AcceptSome)
    /\ WF_vars(RejectSome)
    /\ WF_vars(Return)

-----------------------------------------------------------------------------
(* Claims about random_cell_positions *)

\* C1: under fair sampling random_cell_positions eventually returns, and the
\* list it returns has exactly n points.
C1_ReturnsNPoints == <>(pc = "done" /\ Len(centres) = n)

C1_Witness ==
    /\ pc = "done"
    /\ Len(centres) = n
    /\ n >= 2
    /\ relaxations >= 2

\* C2: in every state of the loop and on return, any two accepted centres are
\* farther apart than the current (possibly relaxed) min_dist.
C2_PairsFartherThanMinDist ==
    \A i \in 1..Len(centres) : \A j \in 1..Len(centres) :
        i # j => Farther(centres[i], centres[j], min_dist)

C2_Witness ==
    /\ pc = "done"
    /\ Len(centres) >= 3
    /\ relaxations >= 1

\* C10: min_dist changes only by relaxation.  A step relaxes exactly when it
\* rejects a sample with the count of consecutive rejections reaching
\* max_attempts; it then multiplies min_dist by relax_factor, resets the
\* counter and writes one message.  Every acceptance resets the counter, the
\* counter is below max_attempts at the start of every iteration, and
\* min_dist never increases.
C10_MinDistChangesOnlyByRelaxation ==
    /\ [](pc = "loop" => attempts < max_attempts)
    /\ [][LET relaxed == relaxations' # relaxations
              rejected == centres' = centres /\ pc' = "loop"
          IN  /\ relaxed <=> (rejected /\ attempts + 1 = max_attempts)
              /\ relaxed => /\ relaxations' = relaxations + 1
                            /\ min_dist' = RatMul(min_dist, relax_factor)
                            /\ attempts' = 0
              /\ ~relaxed => min_dist' = min_dist
              /\ (rejected /\ ~relaxed) => attempts' = attempts + 1
              /\ centres' # centres => attempts' = 0
              /\ ~RatLess(min_dist, min_dist')]_vars

C10_Witness ==
    /\ relaxations >= 2
    /\ Len(centres) >= 2
    /\ attempts = 1
    /\ RatLess(min_dist, <<550, 1>>)

-----------------------------------------------------------------------------
(* segment_circle_intersection and draw_smart_line                         *)
(*                                                                         *)
(* The geometry is computed in exact integer arithmetic.  The code's       *)
(* b = 2 * dot(f, d) and disc = b*b - 4*a*c_val are carried halved and     *)
(* quartered (h = dot(f, d), disc4 = h*h - a*c_val), which leaves the      *)
(* roots t = (-b -+ sqrt(disc)) / (2a) = (-h -+ sqrt(disc4)) / a the same. *)
(* The inputs of SplitSpec are those whose intersection points are grid    *)
(* points, so that the square root and the division are exact there; on    *)
(* other inputs they round (to the floor, and to the nearest grid point).  *)

Dot(u, v) == u[1] * v[1] + u[2] * v[2]

Sub(u, v) == <<u[1] - v[1], u[2] - v[2]>>

Cross(u, v) == u[1] * v[2] - u[2] * v[1]

\* the largest s in lo..hi with s*s <= x, by bisection
RECURSIVE SqrtBetween(_, _, _)
SqrtBetween(x, lo, hi) ==
    IF lo >= hi THEN lo
    ELSE LET mid == (lo + hi + 1) \div 2
         IN  IF mid * mid <= x THEN SqrtBetween(x, mid, hi)
             ELSE SqrtBetween(x, lo, mid - 1)

\* np.sqrt, to the floor
ISqrt(x) == SqrtBetween(x, 0, IF x < 46340 THEN x ELSE 46340)

IsSquare(x) == x >= 0 /\ ISqrt(x) * ISqrt(x) = x

\* num / den to the nearest integer, den > 0
RoundDiv(num, den) == (2 * num + den) \div (2 * den)

PointAtNoOrigin(p1, d, num, a) ==
    <<RoundDiv(num * d[1], a), RoundDiv(num * d[2], a)>>

\* p1 + t*d for t = num / a
PointAt(p1, d, num, a) ==
    <<p1[1] + RoundDiv(num * d[1], a), p1[2] + RoundDiv(num * d[2], a)>>

\* The result None is the empty list: the only caller tests "if not inter".
segment_circle_intersection(p1, p2, center, radius) ==
    LET d == Sub(p2, p1)
        f == Sub(p1, center)
        a == Dot(d, d)
        h == Dot(f, d)
        c_val == Dot(f, f) - radius * radius
        disc4 == h * h - a * c_val
    IN  IF disc4 < 0 THEN <<>>
        ELSE IF a = 0 THEN <<>>    \* t1, t2 are nan: no comparison holds
        ELSE LET sq == ISqrt(disc4)
                 n1 == -h - sq     \* t1 = n1 / a
                 n2 == -h + sq     \* t2 = n2 / a
             IN  (IF 0 <= n1 /\ n1 <= a
                  THEN <<PointAt(p1, d, n1, a)>> ELSE <<>>)
                 \o (IF 0 <= n2 /\ n2 <= a
                     THEN <<PointAt(p1, d, n2, a)>> ELSE <<>>)

\* the order of Python tuples: by x, then by y
TupleLess(u, v) == u[1] < v[1] \/ (u[1] = v[1] /\ u[2] < v[2])

\* sorted(inter), for the one or two points of inter
Sorted(inter) ==
    IF Len(inter) = 2 /\ TupleLess(inter[2], inter[1])
    THEN <<inter[2], inter[1]>>
    ELSE inter

MidInsideOrOn(s, e, center, radius) ==
    LET m2 == <<s[1] + e[1] - 2 * center[1], s[2] + e[2] - 2 * center[2]>>
    IN  Dot(m2, m2) <= 4 * radius * radius

\* np.hypot(mid[0] - center[0], mid[1] - center[1]) < radius for the
\* midpoint mid of (s, e), in doubled coordinates
MidInside(s, e, center, radius) ==
    LET m2 == <<s[1] + e[1] - 2 * center[1], s[2] + e[2] - 2 * center[2]>>
    IN  Dot(m2, m2) < 4 * radius * radius

\* lines 172-178: the pieces of one segment cut by one circle
Pieces(a, b, inter, center, radius) ==
    LET pts == <<a>> \o Sorted(inter) \o <<b>>
    IN  [k \in 1..(Len(pts) - 1) |->
            <<pts[k], pts[k + 1], ~MidInside(pts[k], pts[k + 1], center, radius)>>]

SplitSegmentRetagging(seg, center, radius) ==
    Pieces(seg[1], seg[2],
           segment_circle_intersection(seg[1], seg[2], center, radius),
           center, radius)

\* lines 166-178: one iteration of the inner loop
SplitSegment(seg, center, radius) ==
    LET inter == segment_circle_intersection(seg[1], seg[2], center, radius)
    IN  IF inter = <<>> THEN <<seg>>
        ELSE Pieces(seg[1], seg[2], inter, center, radius)

RECURSIVE Flatten(_)
Flatten(seqs) ==
    IF seqs = <<>> THEN <<>> ELSE Head(seqs) \o Flatten(Tail(seqs))

\* lines 165-180: new_segments after the pass over one circle
NewSegments(segs, center, radius) ==
    Flatten([k \in 1..Len(segs) |-> SplitSegment(segs[k], center, radius)])

\* The circles of the inputs: two overlapping circles of radius 5 on the x
\* axis, two of radius 5 above it (one cutting the axis at -4 and 4, one
\* tangent to it), a unit circle at the origin and a unit circle far away.
CircleSet ==
    { <<<<0, 0>>, 5>>, <<<<6, 0>>, 5>>, <<<<0, 3>>, 5>>, <<<<0, 5>>, 5>>,
      <<<<0, 0>>, 1>>, <<<<5, 5>>, 1>> }

\* The end points of the inputs: on the x axis, on the y axis, and on the
\* two diagonals that meet the circle of radius 5 around the origin in
\* (-4, -3), (4, 3) and (-4, 3), (4, -3).
EndPoints ==
    { <<x, 0>> : x \in {-8, -2, 0, 1, 2, 8, 14} }
    \cup { <<0, -8>>, <<0, 8>>, <<-8, -6>>, <<8, 6>>, <<-8, 6>>, <<8, -6>> }

CircleLists == UNION { [1..k -> CircleSet] : k \in 0..MaxCircles }

\* The line through p1 and p2 meets the circle in grid points or not at all.
LineExact(p1, p2, c) ==
    LET d == Sub(p2, p1)
        f == Sub(p1, c[1])
        a == Dot(d, d)
        h == Dot(f, d)
        disc4 == h * h - a * (Dot(f, f) - c[2] * c[2])
        sq == ISqrt(disc4)
    IN  IF a = 0 \/ disc4 < 0 THEN TRUE
        ELSE /\ IsSquare(disc4)
             /\ \A num \in {-h - sq, -h + sq} :
                   (num * d[1]) % a = 0 /\ (num * d[2]) % a = 0

SplitInit ==
    /\ PlaceIdle
    /\ RingIdle
    /\ LayoutIdle
    /\ GuiIdle
    /\ ColourIdle
    /\ BatchIdle
    /\ line \in EndPoints \X EndPoints
    /\ circles \in CircleLists
    /\ \A k \in 1..Len(circles) : LineExact(line[1], line[2], circles[k])
    /\ segments = << <<line[1], line[2], TRUE>> >>
    /\ ci = 0
    /\ inters = <<>>
    /\ pc = "split"

\* lines 164-180: the pass of the outer loop over the next circle
SplitPass ==
    /\ pc = "split"
    /\ ci < Len(circles)
    /\ LET center == circles[ci + 1][1]
           radius == circles[ci + 1][2]
       IN  /\ segments' = NewSegments(segments, center, radius)
           /\ inters' = [k \in 1..Len(segments) |->
                           <<segments[k][1], segments[k][2], center, radius,
                             segment_circle_intersection(
                                 segments[k][1], segments[k][2], center, radius)>>]
    /\ ci' = ci + 1
    /\ UNCHANGED <<line, circles, pc, placeVars, ringVars, layoutVars, spoke, guiVars, colourVars, batchVars>>

\* lines 182-189: every segment is plotted, opaque when tagged outside
Draw ==
    /\ pc = "split"
    /\ ci = Len(circles)
    /\ pc' = "drawn"
    /\ UNCHANGED <<splitVars, placeVars, ringVars, layoutVars, spoke, guiVars, colourVars, batchVars>>

SplitNext == SplitPass \/ Draw

SplitSpec == SplitInit /\ [][SplitNext]_vars

-----------------------------------------------------------------------------
(* Claims about segment_circle_intersection and draw_smart_line *)

\* q lies on the segment (p1, p2)
OnSegment(q, p1, p2) ==
    LET d == Sub(p2, p1)
        w == Sub(q, p1)
    IN  /\ Cross(w, d) = 0
        /\ 0 <= Dot(w, d)
        /\ Dot(w, d) <= Dot(d, d)

\* the position of q along the line from p1 to p2, times |p2 - p1|
Along(q) == Dot(Sub(q, line[1]), Sub(line[2], line[1]))

RECURSIVE SumOfLengths(_)
SumOfLengths(segs) ==
    IF segs = <<>> THEN 0
    ELSE Abs(Along(Head(segs)[2]) - Along(Head(segs)[1]))
         + SumOfLengths(Tail(segs))

StrictlyOutside(q, c) == Dist2(q, c[1]) > c[2] * c[2]

\* The segment (p1, p2) has a point on the boundary of circle c: its nearest
\* point to the centre is no farther than the radius and its farthest point
\* (an end point) no nearer.
Touches(p1, p2, c) ==
    LET d == Sub(p2, p1)
        f == Sub(p1, c[1])
        a == Dot(d, d)
        h == Dot(f, d)
        rr == c[2] * c[2]
        nearest == IF h >= 0 THEN Dot(f, f) <= rr
                   ELSE IF -h >= a THEN Dist2(p2, c[1]) <= rr
                   ELSE Dot(f, f) * a - h * h <= rr * a
        farthest == Dot(f, f) >= rr \/ Dist2(p2, c[1]) >= rr
    IN  nearest /\ farthest

\* The segment (p1, p2) passes through the inside of circle c between its end
\* points: the nearest point to the centre is strictly between the end points
\* and strictly inside.
PassesThrough(p1, p2, c) ==
    LET d == Sub(p2, p1)
        f == Sub(p1, c[1])
        a == Dot(d, d)
        h == Dot(f, d)
    IN  /\ 0 < -h
        /\ -h < a
        /\ Dot(f, f) * a - h * h < c[2] * c[2] * a

Linked(segs, p1, p2) ==
    /\ Len(segs) >= 1
    /\ segs[1][1] = p1
    /\ segs[Len(segs)][2] = p2
    /\ \A k \in 1..(Len(segs) - 1) : segs[k][2] = segs[k + 1][1]

\* C3: after every pass of the split loop the pieces form a chain from p1 to
\* p2 (first piece starts at p1, last ends at p2, each starts where the
\* previous one ends), no piece runs backwards along the segment, and the
\* piece lengths sum to the length of (p1, p2).
C3_PiecesReconstructSegment ==
    pc \in {"split", "drawn"} =>
        /\ Linked(segments, line[1], line[2])
        /\ \A k \in 1..Len(segments) :
              /\ OnSegment(segments[k][1], line[1], line[2])
              /\ OnSegment(segments[k][2], line[1], line[2])
              /\ Along(segments[k][1]) <= Along(segments[k][2])
        /\ SumOfLengths(segments) = Along(line[2])

\* C4: a segment with both end points strictly outside a single circle that
\* crosses it at two distinct points is split into exactly 3 pieces tagged
\* outside, inside, outside, chained from p1 to p2.
C4_ThreePiecesOutInOut ==
    (/\ pc = "drawn"
     /\ Len(circles) = 1
     /\ StrictlyOutside(line[1], circles[1])
     /\ StrictlyOutside(line[2], circles[1])
     /\ PassesThrough(line[1], line[2], circles[1]))
    => /\ Len(segments) = 3
       /\ Linked(segments, line[1], line[2])
       /\ <<segments[1][3], segments[2][3], segments[3][3]>>
              = <<TRUE, FALSE, TRUE>>

Box(a, b) ==
    ((IF a[1] <= b[1] THEN a[1] ELSE b[1])..(IF a[1] <= b[1] THEN b[1] ELSE a[1]))
    \X ((IF a[2] <= b[2] THEN a[2] ELSE b[2])..(IF a[2] <= b[2] THEN b[2] ELSE a[2]))

\* the points of the segment (a, b) on the boundary of the circle
BoundaryPoints(a, b, center, radius) ==
    { q \in Box(a, b) :
        Dist2(q, center) = radius * radius /\ OnSegment(q, a, b) }

\* C6: segment_circle_intersection returns None exactly when no root of the
\* quadratic lies in [0,1] (or the discriminant is negative); otherwise its
\* result holds one point per root in [0,1], in the order t1, t2, and the
\* points returned are exactly the points of the segment on the circle's
\* boundary.
C6_IntersectionPoints ==
    \A k \in 1..Len(inters) :
        LET a == inters[k][1]
            b == inters[k][2]
            center == inters[k][3]
            radius == inters[k][4]
            res == inters[k][5]
            d == Sub(b, a)
            f == Sub(a, center)
            on == IF a = b THEN {} ELSE BoundaryPoints(a, b, center, radius)
            tangent == Cross(f, d) * Cross(f, d) = radius * radius * Dot(d, d)
        IN  /\ { res[i] : i \in 1..Len(res) } = on
            /\ Len(res) = IF tangent THEN 2 * Cardinality(on) ELSE Cardinality(on)
            /\ Len(res) = 2 => Dot(Sub(res[1], a), d) <= Dot(Sub(res[2], a), d)

\* one pass met a segment cut twice, a segment cut once and a segment not cut
\* although its line meets the circle
C6_Witness ==
    /\ \E k \in 1..Len(inters) :
          Len(inters[k][5]) = 2 /\ inters[k][5][1] # inters[k][5][2]
    /\ \E k \in 1..Len(inters) : Len(inters[k][5]) = 1
    /\ \E k \in 1..Len(inters) :
          /\ inters[k][5] = <<>>
          /\ inters[k][1] # inters[k][2]
          /\ Touches(line[1], line[2], <<inters[k][3], inters[k][4]>>)

\* the midpoint of the piece q is strictly inside the circle c (in doubled
\* coordinates)
MidpointStrictlyInside(q, c) ==
    LET mx == q[1][1] + q[2][1] - 2 * c[1][1]
        my == q[1][2] + q[2][2] - 2 * c[1][2]
    IN  mx * mx + my * my < 4 * c[2] * c[2]

\* the circles among the first k whose boundary meets the piece q; a piece
\* of length 0 is met by none
Cutters(q, k) ==
    IF q[1] = q[2] THEN {}
    ELSE { j \in 1..k :
             BoundaryPoints(q[1], q[2], circles[j][1], circles[j][2]) # {} }

LastCutter(q, k) == CHOOSE j \in Cutters(q, k) : \A i \in Cutters(q, k) : i <= j

RECURSIVE SplitAll(_, _, _)
SplitAll(segs, cl, k) ==
    IF k > Len(cl) THEN segs
    ELSE SplitAll(NewSegments(segs, cl[k][1], cl[k][2]), cl, k + 1)

\* draw_smart_line's segments for (p1, p2) and the circle list cl
draw_smart_line(p1, p2, cl) == SplitAll(<< <<p1, p2, TRUE>> >>, cl, 1)

\* the orders in which the circles of a list can be supplied
Orders(cl) ==
    { p \in [1..Len(cl) -> 1..Len(cl)] :
        \A i \in 1..Len(cl) : \A j \in 1..Len(cl) : i # j => p[i] # p[j] }

Reordered(cl, p) == [k \in 1..Len(cl) |-> cl[p[k]]]

PieceSet(segs) == { segs[k] : k \in 1..Len(segs) }

\* C12: the set of tagged pieces of the split is the same for every order in
\* which the circles are supplied.
C12_SplitIndependentOfCircleOrder ==
    pc = "drawn" =>
        /\ segments = draw_smart_line(line[1], line[2], circles)
        /\ \A p \in Orders(circles) :
              PieceSet(draw_smart_line(line[1], line[2], Reordered(circles, p)))
                  = PieceSet(segments)

-----------------------------------------------------------------------------
(* ring_positions_inside_cell                                              *)
(*                                                                         *)
(* Angles are whole multiples of 5 degrees (Turn of them make 2*pi), the   *)
(* cosine is a table of round(10000 * cos) and the ring radius is carried  *)
(* in units of 0.00001, so that outer_limit * 0.95 is exact; the points    *)
(* returned are rounded to the nearest grid point.                         *)

LIVING_RADIUS == 100

FUNCTION_RADIUS == 50

CELL_RADIUS == 220

\* 2*np.pi
Turn == 72

\* round(10000 * cos(5 degrees * k)) for k = 0..18
QuarterCos ==
    <<10000, 9962, 9848, 9659, 9397, 9063, 8660, 8192, 7660, 7071,
      6428, 5736, 5000, 4226, 3420, 2588, 1736, 872, 0>>

\* np.cos
Cos(a) ==
    LET m == a % Turn
    IN  IF m <= 18 THEN QuarterCos[m + 1]
        ELSE IF m <= 36 THEN -QuarterCos[36 - m + 1]
        ELSE IF m <= 54 THEN -QuarterCos[m - 36 + 1]
        ELSE QuarterCos[Turn - m + 1]

\* np.sin
Sin(a) == Cos(a - 18)

MaxPicksSmaller(a, b) == IF a >= b THEN b ELSE a

Max(a, b) == IF a >= b THEN a ELSE b

Min(a, b) == IF a <= b THEN a ELSE b

\* outer_limit = cell_radius - item_radius - 0.01
OuterLimit(cell_radius, item_radius) == 100 * (cell_radius - item_radius - 10)

\* inner_limit = LIVING_RADIUS + item_radius + 0.002
InnerLimit(item_radius) == 100 * (LIVING_RADIUS + item_radius + 2)

RingRadiusNoFallback(cell_radius, item_radius) ==
    LET outer_limit == OuterLimit(cell_radius, item_radius)
        inner_limit == InnerLimit(item_radius)
    IN  Min(Max(inner_limit, (outer_limit * 95) \div 100), outer_limit)

\* lines 98-103: the ring radius used
RingRadius(cell_radius, item_radius) ==
    LET outer_limit == OuterLimit(cell_radius, item_radius)
        inner_limit == InnerLimit(item_radius)
        hugging == Max(inner_limit, (outer_limit * 95) \div 100)
        clamped == Min(hugging, outer_limit)
    IN  IF clamped <= 0 THEN cell_radius * 50 ELSE clamped

LinspaceWithEndpoint(k) ==
    [j \in 1..k |-> IF k = 1 THEN 0 ELSE ((j - 1) * Turn) \div (k - 1)]

\* np.linspace(0, 2*np.pi, n_items, endpoint=False)
Linspace(k) == [j \in 1..k |-> ((j - 1) * Turn) \div k]

\* angles = start_angle + np.linspace(...)
Angles(start_angle, k) == [j \in 1..k |-> start_angle + Linspace(k)[j]]

\* (center[0] + ring_radius * np.cos(a), center[1] + ring_radius * np.sin(a))
RingPoint(center, rr, a) ==
    <<center[1] + RoundDiv(rr * Cos(a), 1000000),
      center[2] + RoundDiv(rr * Sin(a), 1000000)>>

\* start_angle is the value drawn by random.uniform(0, 2*np.pi)
ring_positions_inside_cell(center, cell_radius, n_items, item_radius, start_angle) ==
    LET rr == RingRadius(cell_radius, item_radius)
        as == Angles(start_angle, n_items)
    IN  [j \in 1..n_items |-> RingPoint(center, rr, as[j])]

\* The inputs: the renderer's cell (220, 50), a wide cell, a cell whose
\* outer limit is below the inner limit, and a cell too small for its items
\* (the fallback); item counts that divide the turn.
RingCentres == { <<500, 500>>, <<150, 850>> }

CellRadii == { CELL_RADIUS, 300, 100, 60 }

ItemRadii == { FUNCTION_RADIUS, 20 }

ItemCounts == { 1, 2, 3, 4, 6, 8, 9 }

StartAngles == 0..(Turn - 1)

RingInit ==
    /\ PlaceIdle
    /\ SplitIdle
    /\ LayoutIdle
    /\ GuiIdle
    /\ ColourIdle
    /\ BatchIdle
    /\ ring_args \in RingCentres \X CellRadii \X ItemCounts \X ItemRadii
    /\ ring_radius = 0
    /\ angles = <<>>
    /\ ring_points = <<>>
    /\ pc = "ring"

\* lines 88-113: the call, with the start angle it draws
RingPositions(start_angle) ==
    /\ pc = "ring"
    /\ ring_radius' = RingRadius(ring_args[2], ring_args[4])
    /\ angles' = Angles(start_angle, ring_args[3])
    /\ ring_points' = ring_positions_inside_cell(
                          ring_args[1], ring_args[2], ring_args[3],
                          ring_args[4], start_angle)
    /\ pc' = "ring_done"
    /\ UNCHANGED <<ring_args, placeVars, splitVars, layoutVars, spoke, guiVars, colourVars, batchVars>>

RingNext == \E start_angle \in StartAngles : RingPositions(start_angle)

RingSpec == RingInit /\ [][RingNext]_vars

-----------------------------------------------------------------------------
(* Claims about ring_positions_inside_cell *)

\* v turned by the angle a
Rotated(v, a) ==
    <<RoundDiv(v[1] * Cos(a) - v[2] * Sin(a), 10000),
      RoundDiv(v[1] * Sin(a) + v[2] * Cos(a), 10000)>>

\* C7: ring_positions_inside_cell returns exactly k points, all at the ring
\* radius from the centre (to the rounding of the grid: less than 0.75 of a
\* unit), consecutive ones, the last and the first included, separated by an
\* angle of exactly 2*pi/k: the angles differ by Turn/k and each point is the
\* previous one turned by Turn/k about the centre (to the rounding).
C7_RingEvenlySpaced ==
    pc = "ring_done" =>
        LET center == ring_args[1]
            k == ring_args[3]
            next(j) == (j % k) + 1
        IN  /\ Len(ring_points) = k
            /\ Len(angles) = k
            /\ k * (Turn \div k) = Turn
            /\ \A j \in 1..k :
                  /\ 10000 * Dist2(ring_points[j], center)
                        < (ring_radius + 75) * (ring_radius + 75)
                  /\ ring_radius > 75 =>
                        10000 * Dist2(ring_points[j], center)
                            > (ring_radius - 75) * (ring_radius - 75)
                  /\ (angles[next(j)] - angles[j] - Turn \div k) % Turn = 0
                  /\ LET turned == Rotated(Sub(ring_points[j], center), Turn \div k)
                         w == Sub(ring_points[next(j)], center)
                     IN  Abs(w[1] - turned[1]) <= 2 /\ Abs(w[2] - turned[2]) <= 2

C7_Witness ==
    /\ pc = "ring_done"
    /\ ring_args[2] = CELL_RADIUS
    /\ ring_args[3] = 9
    /\ ring_args[4] = FUNCTION_RADIUS
    /\ ring_radius = 15200
    /\ angles[1] = 7
    /\ Len(ring_points) = 9

\* the two limits and the clamped radius of the call, in units of 0.00001,
\* written out from the arguments
ArgOuter == 100 * (ring_args[2] - ring_args[4] - 10)

ArgInner == 100 * (100 + ring_args[4] + 2)

ArgClamped ==
    LET hugging == IF ArgInner >= (95 * ArgOuter) \div 100
                   THEN ArgInner ELSE (95 * ArgOuter) \div 100
    IN  IF hugging <= ArgOuter THEN hugging ELSE ArgOuter

C14_FallbackRadiusIsPositive ==
    pc = "ring_done" =>
        /\ ArgClamped <= 0 =>
              /\ ring_radius = 50 * ring_args[2]
              /\ Len(ring_points) = ring_args[3]
        /\ ring_args[2] > 0 => ring_radius > 0

\* a cell of radius 0.06 with items of radius 0.05: outer = 0, the fallback
\* gives 0.03
C14_Witness ==
    /\ pc = "ring_done"
    /\ ring_args[2] = 60
    /\ ring_args[4] = 50
    /\ ArgClamped = 0
    /\ ring_radius = 3000
    /\ Len(ring_points) = ring_args[3]

-----------------------------------------------------------------------------
(* The layout of one cell and the drawing of its internal connections      *)
(* (multicell_circles.py lines 201-233, MultiCellGUI.redraw lines 529-547  *)
(* with one cell: there are no external connections).                      *)

\* FUNCTIONS
FUNCTIONS ==
    <<"water", "education", "green", "work", "streets", "tree",
      "temperature", "biodiversity", "pollution">>

RECURSIVE AllCirclesLivingOnly(_, _, _)
AllCirclesLivingOnly(cells, funcs, i) ==
    IF i > Len(cells) THEN <<>>
    ELSE << <<cells[i], LIVING_RADIUS>> >> \o AllCirclesLivingOnly(cells, funcs, i + 1)

\* for i, c in enumerate(cell_centres): the living circle of each cell, then
\* its function circles
RECURSIVE AllCircles(_, _, _)
AllCircles(cells, funcs, i) ==
    IF i > Len(cells) THEN <<>>
    ELSE << <<cells[i], LIVING_RADIUS>> >>
         \o [k \in 1..Len(funcs[i]) |-> <<funcs[i][k], FUNCTION_RADIUS>>]
         \o AllCircles(cells, funcs, i + 1)

\* random_cell_positions(1) returns the first candidate drawn; each start
\* angle is the one drawn by ring_positions_inside_cell.
RenderInit ==
    /\ PlaceIdle
    /\ RingIdle
    /\ cell_centres \in { <<c>> : c \in Candidates }
    /\ living_centres = cell_centres
    /\ function_centres \in
          { << ring_positions_inside_cell(
                   cell_centres[1], CELL_RADIUS, Len(FUNCTIONS),
                   FUNCTION_RADIUS, start_angle) >> :
            start_angle \in StartAngles }
    /\ circles = AllCircles(cell_centres, function_centres, 1)
    /\ line = <<>>
    /\ segments = <<>>
    /\ ci = 0
    /\ inters = <<>>
    /\ spoke = 0
    /\ GuiIdle
    /\ ColourIdle
    /\ BatchIdle
    /\ pc = "connect"

\* lines 228-231: draw_smart_line is called for the next function point
StartLine ==
    /\ pc \in {"connect", "drawn"}
    /\ spoke < Len(function_centres[1])
    /\ spoke' = spoke + 1
    /\ line' = <<living_centres[1], function_centres[1][spoke + 1]>>
    /\ segments' = << <<living_centres[1], function_centres[1][spoke + 1], TRUE>> >>
    /\ ci' = 0
    /\ inters' = <<>>
    /\ pc' = "split"
    /\ UNCHANGED <<circles, placeVars, ringVars, layoutVars, guiVars, colourVars, batchVars>>

\* the loop over the function points ends
Finish ==
    /\ pc = "drawn"
    /\ spoke = Len(function_centres[1])
    /\ pc' = "rendered"
    /\ UNCHANGED <<splitVars, placeVars, ringVars, layoutVars, spoke, guiVars, colourVars, batchVars>>

RenderNext == StartLine \/ SplitPass \/ Draw \/ Finish

RenderSpec == RenderInit /\ [][RenderNext]_vars

-----------------------------------------------------------------------------
(* Claims about the spokes of one cell *)

\* C9 as stated: every piece of every spoke is tagged outside.
C9_SpokesOnlyOutside ==
    (pc = "drawn" /\ spoke >= 1) =>
        \A k \in 1..Len(segments) : segments[k][3] = TRUE

\* C9 as amended: every spoke is split into three pieces, chained from the
\* living point to the function point: the part inside the living circle
\* (tagged inside), the gap between the two circles (tagged outside) and the
\* part inside the function circle (tagged inside).
C9_SpokesInsideOutsideInside ==
    (pc = "drawn" /\ spoke >= 1) =>
        /\ Len(segments) = 3
        /\ Linked(segments, living_centres[1], function_centres[1][spoke])
        /\ <<segments[1][3], segments[2][3], segments[3][3]>>
              = <<FALSE, TRUE, FALSE>>
        /\ MidInside(segments[1][1], segments[1][2], living_centres[1], LIVING_RADIUS)
        /\ MidInside(segments[3][1], segments[3][2],
                     function_centres[1][spoke], FUNCTION_RADIUS)

C9_Witness ==
    /\ pc = "rendered"
    /\ spoke = 9
    /\ Len(circles) = 10
    /\ Len(segments) = 3
    /\ segments[1][3] = FALSE

-----------------------------------------------------------------------------
(* The interactive variant: MultiCellGUI (multicell_gui.py), between its   *)
(* event handlers.                                                         *)

\* the most cells the cells slider is moved to
MaxGuiCells == 2

\* self.dragging_idx = None (cells are numbered from 1 here)
NoIndex == 0

\* self.last_xy = None; also an event outside the main axes, or one whose
\* xdata / ydata is None
NoPoint == <<>>

\* values of the cells slider, int(self.slider_cells.val)
CellCounts == 1..MaxGuiCells

\* values of the spacing slider (0.30 .. 0.90), with the default 0.55
SpacingValues == {350, 550}

\* the start angles drawn by ring_positions_inside_cell for a layout
LayoutStartAngles == {0, 7}

\* the places of the mouse events inside the main axes
MousePoints == { <<150, 150>>, <<250, 150>> }

\* the points random_cell_positions draws for a layout
LayoutCandidates == { <<150, 150>>, <<500, 850>>, <<850, 150>> }

MouseEvents == MousePoints \cup {NoPoint}

\* min_dist after 0 .. k relaxations of random_cell_positions
RECURSIVE RelaxedDists(_, _, _)
RelaxedDists(md, rf, k) ==
    IF k = 0 THEN {md} ELSE {md} \cup RelaxedDists(Relax(md, rf), rf, k - 1)

\* The lists random_cell_positions(nn, min_dist=md) can return with the
\* default relax_factor 0.9: the first point is always accepted and min_dist
\* is relaxed only after it, so a list can be returned exactly when all its
\* pairs are farther apart than the min_dist some number of relaxations
\* leaves.
random_cell_positions(nn, md) ==
    { cs \in [1..nn -> LayoutCandidates] :
        \E m \in RelaxedDists(md, <<9, 10>>, MaxRelax) :
            \A i \in 1..nn : \A j \in 1..nn :
                i < j => Farther(cs[j], cs[i], m) }

InitLayoutsShortRing(nc, spacing, avoid) ==
    { <<cs, [i \in 1..nc |->
               ring_positions_inside_cell(cs[i], CELL_RADIUS, Len(FUNCTIONS) - 1,
                                          FUNCTION_RADIUS, sa[i])]>> :
        cs \in random_cell_positions(nc, IF avoid THEN <<spacing, 1>> ELSE <<50, 1>>),
        sa \in [1..nc -> LayoutStartAngles] }

\* _init_layout: the layouts it can produce, as <<cell_centres, function_centres>>
InitLayouts(nc, spacing, avoid) ==
    { <<cs, [i \in 1..nc |->
               ring_positions_inside_cell(cs[i], CELL_RADIUS, Len(FUNCTIONS),
                                          FUNCTION_RADIUS, sa[i])]>> :
        cs \in random_cell_positions(nc, IF avoid THEN <<spacing, 1>> ELSE <<50, 1>>),
        sa \in [1..nc -> LayoutStartAngles] }

\* the layouts of _init_layout for each setting of the controls
InitLayoutTable ==
    [nc \in CellCounts, spacing \in SpacingValues, avoid \in BOOLEAN |->
        InitLayouts(nc, spacing, avoid)]

RedrawAlwaysFull(skip_lines, living, functions) ==
    [lines |-> TRUE, living |-> living, functions |-> functions]

\* redraw(skip_lines): what is on the canvas afterwards
Redraw(skip_lines, living, functions) ==
    [lines |-> ~skip_lines, living |-> living, functions |-> functions]

\* _init_layout() followed by redraw()
InitLayoutAndRedraw(nc, spacing, avoid) ==
    \E lay \in InitLayoutTable[nc, spacing, avoid] :
        /\ cell_centres' = lay[1]
        /\ living_centres' = lay[1]
        /\ function_centres' = lay[2]
        /\ canvas' = Redraw(FALSE, lay[1], lay[2])

\* colour texts are sequences of characters
BASE_FUNC_COLOR_MAP ==
    [name \in { FUNCTIONS[k] : k \in 1..Len(FUNCTIONS) } |->
        CASE name = "water"        -> <<"#", "0", "0", "b", "7", "f", "f">>
          [] name = "education"    -> <<"#", "f", "f", "0", "0", "7", "c">>
          [] name = "green"        -> <<"#", "2", "5", "f", "f", "0", "0">>
          [] name = "work"         -> <<"#", "f", "f", "8", "c", "0", "0">>
          [] name = "streets"      -> <<"#", "f", "f", "d", "0", "0", "0">>
          [] name = "tree"         -> <<"#", "1", "3", "f", "f", "9", "d">>
          [] name = "temperature"  -> <<"#", "f", "f", "2", "e", "0", "0">>
          [] name = "biodiversity" -> <<"#", "8", "b", "0", "0", "f", "f">>
          [] name = "pollution"    -> <<"#", "0", "0", "f", "f", "d", "5">>]

LIVING_OUTLINE == <<"#", "f", "f", "4", "8", "c", "4">>

CELL_BORDER_COLOR == <<"#", "5", "7", "c", "5", "c", "8">>

\* __init__ lines 160-174: the colour state after construction
ColourStart ==
    /\ func_color_map = BASE_FUNC_COLOR_MAP
    /\ living_outline_color = LIVING_OUTLINE
    /\ cell_border_color = CELL_BORDER_COLOR
    /\ font_color_living = <<"b", "l", "a", "c", "k">>
    /\ font_color_function = <<"a", "u", "t", "o">>
    /\ box_col_liv = LIVING_OUTLINE
    /\ submitted = <<>>
    /\ submits = 0

GuiInit ==
    /\ PlaceIdle
    /\ SplitIdle
    /\ RingIdle
    /\ spoke = 0
    /\ n_cells \in CellCounts
    /\ cell_spacing = 550
    /\ avoid_overlap = TRUE
    /\ dragging_idx = NoIndex
    /\ last_xy = NoPoint
    /\ \E lay \in InitLayoutTable[n_cells, cell_spacing, avoid_overlap] :
        /\ cell_centres = lay[1]
        /\ living_centres = lay[1]
        /\ function_centres = lay[2]
        /\ canvas = Redraw(FALSE, lay[1], lay[2])
    /\ ColourStart
    /\ BatchIdle
    /\ pc = "gui"

OnRandomLayout ==
    /\ InitLayoutAndRedraw(n_cells, cell_spacing, avoid_overlap)
    /\ UNCHANGED <<n_cells, cell_spacing, avoid_overlap, dragging_idx, last_xy>>
    /\ UNCHANGED <<placeVars, splitVars, ringVars, spoke, colourVars, batchVars, pc>>

OnCellsChange(val) ==
    /\ n_cells' = val
    /\ InitLayoutAndRedraw(val, cell_spacing, avoid_overlap)
    /\ UNCHANGED <<cell_spacing, avoid_overlap, dragging_idx, last_xy>>
    /\ UNCHANGED <<placeVars, splitVars, ringVars, spoke, colourVars, batchVars, pc>>

OnSpacingChange(val) ==
    /\ cell_spacing' = val
    /\ InitLayoutAndRedraw(n_cells, val, avoid_overlap)
    /\ UNCHANGED <<n_cells, avoid_overlap, dragging_idx, last_xy>>
    /\ UNCHANGED <<placeVars, splitVars, ringVars, spoke, colourVars, batchVars, pc>>

OnToggleOverlap ==
    /\ avoid_overlap' = ~avoid_overlap
    /\ InitLayoutAndRedraw(n_cells, cell_spacing, ~avoid_overlap)
    /\ UNCHANGED <<n_cells, cell_spacing, dragging_idx, last_xy>>
    /\ UNCHANGED <<placeVars, splitVars, ringVars, spoke, colourVars, batchVars, pc>>

\* np.linalg.norm(click - np.array(centre)) <= LIVING_RADIUS * 1.4
Hit(click, centre) ==
    100 * Dist2(click, centre) <= (14 * LIVING_RADIUS) * (14 * LIVING_RADIUS)

\* the first living point the click hits, or NoIndex
FirstHit(click, living) ==
    LET hits == { i \in 1..Len(living) : Hit(click, living[i]) }
    IN  IF hits = {} THEN NoIndex
        ELSE CHOOSE i \in hits : \A j \in hits : i <= j

OnPress(event) ==
    /\ IF event = NoPoint \/ FirstHit(event, living_centres) = NoIndex
       THEN UNCHANGED <<dragging_idx, last_xy>>
       ELSE /\ dragging_idx' = FirstHit(event, living_centres)
            /\ last_xy' = event
    /\ UNCHANGED <<n_cells, cell_spacing, avoid_overlap, canvas>>
    /\ UNCHANGED <<placeVars, splitVars, ringVars, layoutVars, spoke, colourVars, batchVars, pc>>

Add(p, delta) == <<p[1] + delta[1], p[2] + delta[2]>>

TranslatedOnlyFirst(points, delta) ==
    [k \in 1..Len(points) |-> IF k = 1 THEN Add(points[k], delta) ELSE points[k]]

\* [tuple(np.array(p) + delta) for p in self.function_centres[ci]]
Translated(points, delta) ==
    [k \in 1..Len(points) |-> Add(points[k], delta)]

\* _on_motion.  When dragging_idx is no index of living_centres any more, the
\* read of self.living_centres[ci] raises IndexError after last_xy was
\* stored, and the handler ends there.
OnMotion(event) ==
    /\ IF dragging_idx = NoIndex \/ event = NoPoint
       THEN UNCHANGED <<layoutVars, last_xy, canvas>>
       ELSE /\ last_xy' = event
            /\ IF dragging_idx > Len(living_centres)
               THEN UNCHANGED <<layoutVars, canvas>>
               ELSE LET delta == Sub(event, last_xy)
                        moved == Add(living_centres[dragging_idx], delta)
                    IN  /\ living_centres' =
                              [living_centres EXCEPT ![dragging_idx] = moved]
                        /\ cell_centres' =
                              [cell_centres EXCEPT ![dragging_idx] = moved]
                        /\ function_centres' =
                              [function_centres EXCEPT ![dragging_idx] =
                                  Translated(@, delta)]
                        /\ canvas' = Redraw(TRUE, living_centres', function_centres')
    /\ UNCHANGED <<n_cells, cell_spacing, avoid_overlap, dragging_idx>>
    /\ UNCHANGED <<placeVars, splitVars, ringVars, spoke, colourVars, batchVars, pc>>

OnRelease ==
    /\ dragging_idx' = NoIndex
    /\ last_xy' = NoPoint
    /\ canvas' = Redraw(FALSE, living_centres, function_centres)
    /\ UNCHANGED <<n_cells, cell_spacing, avoid_overlap>>
    /\ UNCHANGED <<placeVars, splitVars, ringVars, layoutVars, spoke, colourVars, batchVars, pc>>

CellsChange == \E val \in CellCounts : OnCellsChange(val)

SpacingChange == \E val \in SpacingValues : OnSpacingChange(val)

Press == \E event \in MouseEvents : OnPress(event)

Motion == \E event \in MouseEvents : OnMotion(event)

GuiNext ==
    \/ OnRandomLayout
    \/ CellsChange
    \/ SpacingChange
    \/ OnToggleOverlap
    \/ Press
    \/ Motion
    \/ OnRelease

GuiSpec == GuiInit /\ [][GuiNext]_vars

-----------------------------------------------------------------------------
(* Claims about dragging *)

\* the offsets of a ring of function points from its living point, for the
\* start angle sa
RingOffsets(sa) ==
    ring_positions_inside_cell(<<0, 0>>, CELL_RADIUS, Len(FUNCTIONS),
                               FUNCTION_RADIUS, sa)

\* C8: a motion event handled during a drag of cell i (the one redraw that
\* skips the lines) adds the same delta, the mouse movement since the last
\* event, to the living point of cell i and to each of its 9 function points
\* and leaves every other cell's living and function points as they were;
\* so in every state each cell's function points still have the offsets
\* from its living point that the layout gave them (the ring radius and the
\* angles are not regenerated).
C8_DragTranslatesOneCell ==
    /\ [](\A i \in 1..Len(living_centres) :
            \E sa \in LayoutStartAngles :
                \A k \in 1..Len(FUNCTIONS) :
                    Sub(function_centres[i][k], living_centres[i])
                        = RingOffsets(sa)[k])
    /\ [][(canvas' # canvas /\ canvas'.lines = FALSE)
          => LET delta == Sub(last_xy', last_xy)
                 i == dragging_idx
             IN  /\ i \in 1..Len(living_centres)
                 /\ Len(living_centres') = Len(living_centres)
                 /\ Len(function_centres') = Len(function_centres)
                 /\ living_centres'[i] = Add(living_centres[i], delta)
                 /\ Len(function_centres'[i]) = Len(FUNCTIONS)
                 /\ \A k \in 1..Len(FUNCTIONS) :
                        function_centres'[i][k] = Add(function_centres[i][k], delta)
                 /\ \A j \in 1..Len(living_centres) :
                        j # i => /\ living_centres'[j] = living_centres[j]
                                 /\ function_centres'[j] = function_centres[j]
         ]_vars

\* cell 1 has been dragged away from the place the layout gave it, with
\* a second cell present
C8_Witness ==
    /\ canvas.lines = FALSE
    /\ dragging_idx = 1
    /\ Len(living_centres) = 2
    /\ living_centres[1] = <<250, 150>>
    /\ living_centres[2] \in LayoutCandidates
    /\ last_xy = <<250, 150>>

C17_LayoutWellFormed ==
    /\ n_cells \in CellCounts
    /\ Len(cell_centres) = n_cells
    /\ Len(living_centres) = n_cells
    /\ Len(function_centres) = n_cells
    /\ \A i \in 1..n_cells :
          /\ Len(function_centres[i]) = 9
          /\ Len(function_centres[i]) = Len(FUNCTIONS)
          /\ cell_centres[i] = living_centres[i]

\* two cells, after the cell count was set and the second cell was dragged
\* away from the place the layout gave it
C17_Witness ==
    /\ n_cells = 2
    /\ dragging_idx = 2
    /\ living_centres[2] = <<250, 150>>
    /\ cell_centres[2] = <<250, 150>>
    /\ Len(function_centres[2]) = 9
    /\ canvas.lines = FALSE

\* C18: in every state dragging_idx is None or an index of living_centres
\* and of function_centres, and last_xy is None exactly when dragging_idx is.
C18_DraggingIdxValid ==
    /\ \/ dragging_idx = NoIndex
       \/ /\ dragging_idx \in 1..Len(living_centres)
          /\ dragging_idx \in 1..Len(function_centres)
    /\ (last_xy = NoPoint) <=> (dragging_idx = NoIndex)

-----------------------------------------------------------------------------
(* The colour boxes of MultiCellGUI.  The handlers read and write the      *)
(* colour state only and end with redraw(); they are run here on one       *)
(* layout.                                                                 *)

\* the most submissions handled in one run
MaxSubmits == 2

FunctionNames == { FUNCTIONS[k] : k \in 1..Len(FUNCTIONS) }

\* the texts submitted: empty, blank, '#' texts of the lengths 1, 3, 4, 5, 7
\* and 8, names, 'auto' in two spellings, and padded texts
Texts ==
    { <<>>,
      <<" ">>,
      <<"#">>,
      <<"#", "f", "f">>,
      <<"#", "f", "f", "f">>,
      <<" ", "#", "f", "f", "f", " ">>,
      <<"#", "f", "f", "f", "f">>,
      <<"#", "f", "f", "f", "f", "f", "f">>,
      <<"#", "f", "f", "f", "f", "f", "f", "f">>,
      <<" ", "#", "f", "f", " ">>,
      <<"r", "e", "d">>,
      <<" ", "r", "e", "d", " ", " ">>,
      <<"a", "u", "t", "o">>,
      <<" ", "A", "U", "T", "O">> }

\* the function boxes that receive the submissions
SubmitNames == {"water", "pollution"}

IsSpace(ch) == ch = " "

\* str.lstrip / str.rstrip / str.strip
RECURSIVE LStrip(_)
LStrip(text) ==
    IF text # <<>> /\ IsSpace(Head(text)) THEN LStrip(Tail(text)) ELSE text

RECURSIVE RStrip(_)
RStrip(text) ==
    IF text # <<>> /\ IsSpace(text[Len(text)])
    THEN RStrip(SubSeq(text, 1, Len(text) - 1)) ELSE text

StripLeftOnly(text) == LStrip(text)

Strip(text) == RStrip(LStrip(text))

\* str.lower, on the letters of the texts
LowerChar(ch) ==
    CASE ch = "A" -> "a"
      [] ch = "U" -> "u"
      [] ch = "T" -> "t"
      [] ch = "O" -> "o"
      [] OTHER -> ch

Lower(text) == [k \in 1..Len(text) |-> LowerChar(text[k])]

\* _clean_color(text, fallback, allow_auto)
clean_color(text, fallback, allow_auto) ==
    LET stripped == Strip(text)
    IN  IF allow_auto /\ Lower(stripped) = <<"a", "u", "t", "o">>
        THEN <<"a", "u", "t", "o">>
        ELSE IF stripped = <<>> THEN fallback
        ELSE IF Head(stripped) = "#"
             THEN IF Len(stripped) \in {4, 7} THEN stripped ELSE fallback
        ELSE stripped

\* the colours _on_random_colours can give to all functions
RandomMaps ==
    { [name \in FunctionNames |-> col] :
        col \in { <<"#", "d", "9", "0", "0", "0", "0">>,
                  <<"#", "0", "0", "d", "9", "2", "b">> } }

ColourInit ==
    /\ GuiInit
    /\ n_cells = 1
    /\ cell_centres = << <<150, 150>> >>
    /\ function_centres[1][1] = <<302, 150>>

\* _update_function_color(fname, text)
UpdateFunctionColor(fname, text) ==
    /\ submits < MaxSubmits
    /\ func_color_map' =
          [func_color_map EXCEPT ![fname] = clean_color(text, @, FALSE)]
    /\ canvas' = Redraw(FALSE, living_centres, function_centres)
    /\ submitted' = <<fname, text>>
    /\ submits' = submits + 1
    /\ UNCHANGED <<living_outline_color, cell_border_color, font_color_living,
                   font_color_function, box_col_liv>>
    /\ UNCHANGED <<n_cells, cell_spacing, avoid_overlap, dragging_idx, last_xy>>
    /\ UNCHANGED <<placeVars, splitVars, ringVars, layoutVars, spoke, batchVars, pc>>

\* _update_font_color(text, target)
UpdateFontColor(text, target) ==
    /\ submits < MaxSubmits
    /\ IF target = "living"
       THEN /\ font_color_living' = clean_color(text, font_color_living, FALSE)
            /\ UNCHANGED font_color_function
       ELSE /\ font_color_function' = clean_color(text, font_color_function, TRUE)
            /\ UNCHANGED font_color_living
    /\ canvas' = Redraw(FALSE, living_centres, function_centres)
    /\ submitted' = <<IF target = "living" THEN "font_living" ELSE "font_function", text>>
    /\ submits' = submits + 1
    /\ UNCHANGED <<func_color_map, living_outline_color, cell_border_color, box_col_liv>>
    /\ UNCHANGED <<n_cells, cell_spacing, avoid_overlap, dragging_idx, last_xy>>
    /\ UNCHANGED <<placeVars, splitVars, ringVars, layoutVars, spoke, batchVars, pc>>

\* _update_simple_color(text, target).  For the living outline the box is
\* set to the cleaned colour before the state is: when that changes the
\* box's text the box submits the cleaned colour again, the nested call
\* cleans it to itself (a cleaned colour is left as it is), and both calls
\* store the same colour.
UpdateSimpleColor(text, target) ==
    /\ submits < MaxSubmits
    /\ IF target = "living_outline"
       THEN LET new_col == clean_color(text, living_outline_color, FALSE)
                nested == clean_color(new_col, living_outline_color, FALSE)
            IN  /\ box_col_liv' = new_col
                /\ living_outline_color' =
                      IF new_col # text /\ nested # new_col THEN nested ELSE new_col
                /\ UNCHANGED cell_border_color
       ELSE /\ cell_border_color' = clean_color(text, cell_border_color, FALSE)
            /\ UNCHANGED <<living_outline_color, box_col_liv>>
    /\ canvas' = Redraw(FALSE, living_centres, function_centres)
    /\ submitted' = <<target, text>>
    /\ submits' = submits + 1
    /\ UNCHANGED <<func_color_map, font_color_living, font_color_function>>
    /\ UNCHANGED <<n_cells, cell_spacing, avoid_overlap, dragging_idx, last_xy>>
    /\ UNCHANGED <<placeVars, splitVars, ringVars, layoutVars, spoke, batchVars, pc>>

\* _on_random_colours
OnRandomColours ==
    /\ func_color_map' \in RandomMaps
    /\ canvas' = Redraw(FALSE, living_centres, function_centres)
    /\ UNCHANGED <<living_outline_color, cell_border_color, font_color_living,
                   font_color_function, box_col_liv, submitted, submits>>
    /\ UNCHANGED <<n_cells, cell_spacing, avoid_overlap, dragging_idx, last_xy>>
    /\ UNCHANGED <<placeVars, splitVars, ringVars, layoutVars, spoke, batchVars, pc>>

SubmitFunctionColor ==
    \E fname \in SubmitNames : \E text \in Texts : UpdateFunctionColor(fname, text)

SubmitFontColor ==
    \E target \in {"living", "function"} : \E text \in Texts :
        UpdateFontColor(text, target)

SubmitSimpleColor ==
    \E target \in {"living_outline", "cell_border"} : \E text \in Texts :
        UpdateSimpleColor(text, target)

ColourNext ==
    \/ SubmitFunctionColor
    \/ SubmitFontColor
    \/ SubmitSimpleColor
    \/ OnRandomColours

ColourSpec == ColourInit /\ [][ColourNext]_vars

-----------------------------------------------------------------------------
(* Claims about the colour boxes *)

\* the colour state of a box, in the state given by the five colour values
BoxValue(box, fmap, liv, cell, fliv, ffun) ==
    CASE box = "living_outline" -> liv
      [] box = "cell_border"    -> cell
      [] box = "font_living"    -> fliv
      [] box = "font_function"  -> ffun
      [] OTHER                  -> fmap[box]

Boxes ==
    FunctionNames \cup {"living_outline", "cell_border", "font_living", "font_function"}

\* the text without its leading and trailing blanks, written without Strip
Trimmed(text) ==
    IF \A k \in 1..Len(text) : text[k] = " " THEN <<>>
    ELSE LET first == CHOOSE i \in 1..Len(text) :
                          text[i] # " " /\ \A k \in 1..(i - 1) : text[k] = " "
             last == CHOOSE j \in 1..Len(text) :
                          text[j] # " " /\ \A k \in (j + 1)..Len(text) : text[k] = " "
         IN  [k \in 1..(last - first + 1) |-> text[first + k - 1]]

IsAuto(text) ==
    /\ Len(text) = 4
    /\ text[1] \in {"a", "A"}
    /\ text[2] \in {"u", "U"}
    /\ text[3] \in {"t", "T"}
    /\ text[4] \in {"o", "O"}

\* C15: a submission of a text to a colour box leaves every other colour
\* state as it was, and the box's own state: keeps its previous value when
\* the stripped text is empty, or starts with '#' and has a length other than
\* 4 and 7; otherwise becomes the stripped text, or 'auto' for the function
\* font colour when the stripped text is 'auto' in any letter case.  The
\* handler ends with its redraw (no error).
C15_ColourTextCleaned ==
    [][submits' = submits + 1 =>
        LET box == submitted'[1]
            text == Trimmed(submitted'[2])
            old == BoxValue(box, func_color_map, living_outline_color,
                            cell_border_color, font_color_living, font_color_function)
            new == BoxValue(box, func_color_map', living_outline_color',
                            cell_border_color', font_color_living', font_color_function')
        IN  /\ new = IF box = "font_function" /\ IsAuto(text) THEN <<"a", "u", "t", "o">>
                     ELSE IF text = <<>> THEN old
                     ELSE IF text[1] = "#" /\ Len(text) \notin {4, 7} THEN old
                     ELSE text
            /\ \A other \in Boxes \ {box} :
                  BoxValue(other, func_color_map', living_outline_color',
                           cell_border_color', font_color_living', font_color_function')
                  = BoxValue(other, func_color_map, living_outline_color,
                             cell_border_color, font_color_living, font_color_function)
            /\ canvas'.lines = TRUE
    ]_vars

\* a padded name was accepted by the water box and then a '#' text of length
\* 5 was discarded by it
C15_Witness ==
    /\ submits = 2
    /\ submitted = <<"water", <<"#", "f", "f", "f", "f">>>>
    /\ func_color_map["water"] = <<"r", "e", "d">>
    /\ living_outline_color = LIVING_OUTLINE

-----------------------------------------------------------------------------
(* The connection loop of the batch renderer (multicell_circles.py lines   *)
(* 218-244) with its progress bar (lines 10-20).  Each step draws one      *)
(* connection; how draw_smart_line splits it is modelled above.            *)

TotalConnectionsOrderedPairs(nc) == nc * Len(FUNCTIONS) * (nc - 1)

\* total_connections = N_CELLS * len(FUNCTIONS) * (N_CELLS)
TotalConnections(nc) == nc * Len(FUNCTIONS) * nc

\* filled = int(length * percent), with length = 40
Filled(iteration, total) == (40 * iteration) \div total

BatchInit ==
    /\ PlaceIdle
    /\ SplitIdle
    /\ RingIdle
    /\ LayoutIdle
    /\ GuiIdle
    /\ ColourIdle
    /\ N_CELLS \in 1..MaxCells
    /\ total_connections = TotalConnections(N_CELLS)
    /\ counter = 0
    /\ loop_i = 1
    /\ loop_j = 1
    /\ loop_k = 1
    /\ drawn = {}
    /\ filled = 0
    /\ newlines = 0
    /\ pc = "internal"

\* draw_smart_line, counter += 1, progress_bar(counter, total_connections)
DrawConnection(i, j, k) ==
    /\ drawn' = drawn \cup {<<i, j, k>>}
    /\ counter' = counter + 1
    /\ filled' = Filled(counter + 1, total_connections)
    /\ newlines' = IF counter + 1 = total_connections THEN newlines + 1 ELSE newlines

\* lines 227-232: the next internal connection of living point loop_i
InternalConnection ==
    /\ pc = "internal"
    /\ loop_i <= N_CELLS
    /\ DrawConnection(loop_i, loop_i, loop_k)
    /\ IF loop_k < Len(FUNCTIONS)
       THEN /\ loop_k' = loop_k + 1
            /\ UNCHANGED <<loop_j, pc>>
       ELSE /\ loop_k' = 1
            /\ loop_j' = 1
            /\ pc' = "external"
    /\ UNCHANGED <<N_CELLS, total_connections, loop_i>>
    /\ UNCHANGED <<placeVars, splitVars, ringVars, layoutVars, spoke, guiVars, colourVars>>

\* lines 236-237: if i == j: continue
SkipOwnCell ==
    /\ pc = "external"
    /\ loop_j <= N_CELLS
    /\ loop_j = loop_i
    /\ loop_j' = loop_j + 1
    /\ UNCHANGED <<N_CELLS, total_connections, counter, loop_i, loop_k, drawn,
                   filled, newlines, pc>>
    /\ UNCHANGED <<placeVars, splitVars, ringVars, layoutVars, spoke, guiVars, colourVars>>

\* lines 238-243: the next external connection of living point loop_i
ExternalConnection ==
    /\ pc = "external"
    /\ loop_j <= N_CELLS
    /\ loop_j # loop_i
    /\ DrawConnection(loop_i, loop_j, loop_k)
    /\ IF loop_k < Len(FUNCTIONS)
       THEN /\ loop_k' = loop_k + 1
            /\ UNCHANGED loop_j
       ELSE /\ loop_k' = 1
            /\ loop_j' = loop_j + 1
    /\ UNCHANGED <<N_CELLS, total_connections, loop_i, pc>>
    /\ UNCHANGED <<placeVars, splitVars, ringVars, layoutVars, spoke, guiVars, colourVars>>

\* the loop over the cells ends: the next living point, or the end of the
\* connection loop
NextLiving ==
    /\ pc = "external"
    /\ loop_j > N_CELLS
    /\ loop_i' = loop_i + 1
    /\ loop_j' = 1
    /\ loop_k' = 1
    /\ pc' = IF loop_i < N_CELLS THEN "internal" ELSE "connected"
    /\ UNCHANGED <<N_CELLS, total_connections, counter, drawn, filled, newlines>>
    /\ UNCHANGED <<placeVars, splitVars, ringVars, layoutVars, spoke, guiVars, colourVars>>

BatchNext ==
    \/ InternalConnection
    \/ SkipOwnCell
    \/ ExternalConnection
    \/ NextLiving

BatchSpec == BatchInit /\ [][BatchNext]_vars

-----------------------------------------------------------------------------
(* Claims about the connection counter *)

AllConnections ==
    { <<i, j, k>> : i \in 1..N_CELLS, j \in 1..N_CELLS, k \in 1..9 }

\* C19: while the lines are drawn the counter is the number of connections
\* drawn and never exceeds N_CELLS * 9 * N_CELLS, so the bar never shows
\* more than its 40 cells (100%); the newline has been written exactly when
\* the counter equals the total, and once; after the last line every living
\* point is connected once to every function point of every cell and the
\* counter equals the total.
C19_CounterReachesTotal ==
    pc \in {"internal", "external", "connected"} =>
        /\ total_connections = N_CELLS * 9 * N_CELLS
        /\ counter <= N_CELLS * 9 * N_CELLS
        /\ counter = Cardinality(drawn)
        /\ drawn \subseteq AllConnections
        /\ filled <= 40
        /\ newlines = IF counter = N_CELLS * 9 * N_CELLS THEN 1 ELSE 0
        /\ pc = "connected" =>
              /\ counter = N_CELLS * 9 * N_CELLS
              /\ drawn = AllConnections
              /\ filled = 40
              /\ newlines = 1
        /\ counter = N_CELLS * 9 * N_CELLS => (pc = "external" \/ pc = "connected")

C19_Witness ==
    /\ pc = "connected"
    /\ N_CELLS = 3
    /\ counter = 81
    /\ newlines = 1
    /\ <<3, 1, 9>> \in drawn

=============================================================================
